---- MODULE Spec2Model ----
(***************************************************************************)
(* A model of github.com/aethiopicuschan/memcache: the reconnecting Conn,  *)
(* the Server session with its text-protocol framing, and the multi-server *)
(* Client.  Octets are one-character strings ("NUL" stands for the zero    *)
(* octet); byte strings are sequences of octets.                           *)
(***************************************************************************)
EXTENDS Integers, Sequences, FiniteSets, TLC

\* ------------------------------------------------------------------------
\* Octets and byte strings
\* ------------------------------------------------------------------------
CR == "\r"
LF == "\n"
SP == " "
NUL == "NUL"

Digits == <<"0", "1", "2", "3", "4", "5", "6", "7", "8", "9">>

\* The one element of a singleton set: Only({F(x) : x \in {e}}) is F(e),
\* with e evaluated once.
Only(S) == CHOOSE x \in S : TRUE

RECURSIVE Concat(_)
\* Concatenation of a sequence of byte strings (the effect of a Sprintf over
\* its already formatted operands).
Concat(ss) == IF ss = <<>> THEN <<>> ELSE Head(ss) \o Concat(Tail(ss))

\* strings.TrimSpace: the white-space octets of the ASCII range.
IsSpace(c) == c \in {SP, CR, LF, "\t"}

RECURSIVE TrimLeft(_)
TrimLeft(s) == IF s # <<>> /\ IsSpace(Head(s)) THEN TrimLeft(Tail(s)) ELSE s

RECURSIVE TrimRight(_)
TrimRight(s0) ==
    Only({IF s # <<>> /\ IsSpace(s[Len(s)]) THEN TrimRight(SubSeq(s, 1, Len(s) - 1)) ELSE s
          : s \in {s0}})

TrimSpace(s) == TrimRight(TrimLeft(s))

\* Index of the first occurrence of octet c in s, 0 when there is none.
RECURSIVE IndexFrom(_, _, _)
IndexFrom(s, c, i) ==
    IF i > Len(s) THEN 0 ELSE IF s[i] = c THEN i ELSE IndexFrom(s, c, i + 1)

IndexByte(s, c) == IndexFrom(s, c, 1)

\* strings.Split(s, " "): every single separator splits, so two adjacent
\* separators give an empty part.
RECURSIVE Split(_, _)
Split(s0, sep) ==
    Only({Only({IF i = 0 THEN <<s>>
                ELSE <<SubSeq(s, 1, i - 1)>> \o Split(SubSeq(s, i + 1, Len(s)), sep)
                : i \in {IndexByte(s, sep)}})
          : s \in {s0}})

\* strings.SplitN(s, " ", n): at most n parts, the last one unsplit.
RECURSIVE SplitN(_, _, _)
SplitN(s0, sep, n) ==
    Only({Only({IF n <= 1 \/ i = 0 THEN <<s>>
                ELSE <<SubSeq(s, 1, i - 1)>> \o SplitN(SubSeq(s, i + 1, Len(s)), sep, n - 1)
                : i \in {IndexByte(s, sep)}})
          : s \in {s0}})

IsDigit(c) == \E d \in 1..10 : Digits[d] = c

DigitVal(c) == (CHOOSE d \in 1..10 : Digits[d] = c) - 1

\* fmt's %d of a non-negative integer.
RECURSIVE Itoa(_)
Itoa(n) == IF n < 10 THEN <<Digits[n + 1]>> ELSE Itoa(n \div 10) \o <<Digits[(n % 10) + 1]>>

RECURSIVE DecVal(_, _)
DecVal(s, acc) == IF s = <<>> THEN acc ELSE DecVal(Tail(s), acc * 10 + DigitVal(Head(s)))

AllDigits(s) == s # <<>> /\ \A i \in 1..Len(s) : IsDigit(s[i])

\* strconv.Atoi / strconv.ParseUint(s, 10, 64) on the octets the model uses:
\* ok with the value for a non-empty run of digits, an error otherwise.
Atoi(s) == IF AllDigits(s) THEN [ok |-> TRUE, n |-> DecVal(s, 0)] ELSE [ok |-> FALSE, n |-> 0]

\* The longest prefix of s made of digits.
RECURSIVE DigitPrefix(_)
DigitPrefix(s) ==
    IF s # <<>> /\ IsDigit(Head(s)) THEN <<Head(s)>> \o DigitPrefix(Tail(s)) ELSE <<>>

\* fmt.Sscanf(resp, "%d", &newValue) into a zero uint64 with the result and
\* error dropped: leading white space is skipped, then the leading decimal
\* digits are the value; nothing to scan leaves the zero.
Sscanf(resp) == DecVal(DigitPrefix(TrimLeft(resp)), 0)

\* ------------------------------------------------------------------------
\* hash/crc32.ChecksumIEEE and the index computed from it.  A 32-bit word is
\* kept as its two 16-bit halves.
\* ------------------------------------------------------------------------
RECURSIVE Xor(_, _)
Xor(a, b) ==
    IF a = 0 THEN b
    ELSE IF b = 0 THEN a
    ELSE 2 * Xor(a \div 2, b \div 2) + (((a % 2) + (b % 2)) % 2)

\* The octet's code, for the octets keys are made of.
Ord(c) ==
    CASE c = "a" -> 97 [] c = "b" -> 98 [] c = "c" -> 99 [] c = "d" -> 100
      [] c = "e" -> 101 [] c = "k" -> 107 [] c = "x" -> 120 [] c = "y" -> 121
      [] c = SP -> 32 [] c = CR -> 13 [] c = LF -> 10 [] c = NUL -> 0

RECURSIVE CrcRounds(_, _)
CrcRounds(w0, n) ==
    Only({IF n = 0 THEN w
          ELSE Only({CrcRounds(IF w.lo % 2 = 1
                               THEN [hi |-> Xor(sh.hi, 60856), lo |-> Xor(sh.lo, 33568)]
                               ELSE sh, n - 1)
                     : sh \in {[hi |-> w.hi \div 2,
                                lo |-> (w.lo \div 2) + (w.hi % 2) * 32768]}})
          : w \in {w0}})

RECURSIVE CrcUpdate(_, _)
CrcUpdate(w, s) ==
    IF s = <<>> THEN w
    ELSE CrcUpdate(CrcRounds([hi |-> w.hi, lo |-> Xor(w.lo, Ord(Head(s)))], 8), Tail(s))

ChecksumIEEE(s) ==
    LET w == CrcUpdate([hi |-> 65535, lo |-> 65535], s)
    IN  [hi |-> Xor(w.hi, 65535), lo |-> Xor(w.lo, 65535)]

\* hash mod n for the unsigned 32-bit word hash.
UMod(hash, n) == (((hash.hi % n) * (65536 % n)) + (hash.lo % n)) % n

\* idx := int(hash) % len(c.servers), for a build whose int has `bits` bits.
\* With a 64-bit int the conversion keeps the value; with a 32-bit int a hash
\* of 2^31 or more converts to hash - 2^32, and Go's % takes the sign of the
\* dividend.
PickIndex(hash, n, bits) ==
    IF bits = 64 \/ hash.hi < 32768
    THEN UMod(hash, n)
    ELSE 0 - UMod([hi |-> 65535 - hash.hi, lo |-> 65536 - hash.lo], n)

\* ------------------------------------------------------------------------
\* Bounds and the universe of the model
\* ------------------------------------------------------------------------
\* Threads of the calling program.
MaxThreads == 2
\* Client calls one thread makes.
MaxCalls == 2
\* TCP streams ever dialled (the initial ones and the redials).
MaxStreams == 5
\* Default size of the buffer bufio.NewReader allocates.
BufSize == 4096

Threads == 1..MaxThreads

A1 == "10.0.0.1:11211"
A2 == "10.0.0.2:11211"
A3 == "10.0.0.3:11211"
Addrs == {A1, A2, A3}

\* crc32 routes "d" to index 0 and "b" to index 1 of two sessions; the hash
\* of "d" is above 2^31, the hash of "b" below.
Keys == {<<"b">>, <<"d">>}

Nil == <<>>
ErrEmptyAddresses == <<"ErrEmptyAddresses">>
ErrStoreFailed == <<"ErrStoreFailed">>
ErrWriteFailed == <<"ErrWriteFailed">>
ErrReadFailed == <<"ErrReadFailed">>
ErrNotFound == <<"ErrNotFound">>
ErrUnexpectedResponse == <<"ErrUnexpectedResponse">>
ErrInternal == <<"ErrInternal">>
ErrNoServers == <<"ErrNoServers">>

\* errors.Join(a, b): the joined error lists a's errors, then b's.
Join(a, b) == a \o b

VARIABLES
    intBits,    \* width of the build's int: 32 or 64
    up,         \* addresses a dial reaches at the moment
    peer,       \* the memcached process behind each address
    streams,    \* every TCP stream ever dialled, by id
    sess,       \* the Server objects: Address, conn.conn (a stream id, 0: nil), mu
    arr,        \* backing array of Client.servers: Server ids
    slen,       \* len(Client.servers)
    cmu,        \* threads holding Client.mu for reading
    th,         \* each thread: its position and the locals of its call
    faults,     \* stream failures the environment may still induce
    crashed,    \* the process died of a run-time panic
    made,       \* result of the NewClient call, "none" before it
    g,          \* history: what the claims observe

    prog        \* the calling program: the calls each thread may make

vars == <<intBits, up, peer, streams, sess, arr, slen, cmu, th, faults, crashed, made, g, prog>>

\* A call of the Client API and its arguments.
Call(name, key, val, exp, cas, addr, cmd) ==
    [name |-> name, key |-> key, val |-> val, exp |-> exp, cas |-> cas,
     addr |-> addr, cmd |-> cmd]

NoCall == Call("", <<>>, <<>>, 0, 0, "", <<>>)

\* What a call returns: the error and the results the command has.
NoRet == [err |-> Nil, value |-> <<>>, cas |-> 0, res |-> <<>>, stats |-> <<>>, n |-> 0]

IdleThread ==
    [pc |-> "idle", op |-> NoCall, calls |-> 0,
     srv |-> 0, idx |-> 0, it |-> 0, snap |-> 0,
     x |-> "", out |-> <<>>, io |-> "", att |-> 0,
     ph |-> "", rbuf |-> <<>>, need |-> 0,
     value |-> <<>>, cas |-> 0, res |-> <<>>, stats |-> <<>>, err |-> Nil,
     merged |-> <<>>, ret |-> NoRet, tok |-> 0, redials |-> 0, clog |-> <<>>,
     sent |-> <<>>, hist |-> <<>>, atEmpty |-> FALSE]

NewStream(a) == [addr |-> a, state |-> "open", c2s |-> <<>>, s2c |-> <<>>]

Min(a, b) == IF a < b THEN a ELSE b

\* make([]byte, n): n zero octets.
Zeros(n) == [i \in 1..n |-> NUL]

END == <<"E", "N", "D">>
VALUE == <<"V", "A", "L", "U", "E">>
STAT == <<"S", "T", "A", "T">>
STORED == <<"S", "T", "O", "R", "E", "D">>
OK == <<"O", "K">>
DELETED == <<"D", "E", "L", "E", "T", "E", "D">>
NOT_FOUND == <<"N", "O", "T", "_", "F", "O", "U", "N", "D">>
CRLF == <<CR, LF>>

\* ------------------------------------------------------------------------
\* Server: the response side of an exchange.  r is the thread's record; the
\* exchange kind r.x is "wc" (WriteCommand), "gv" (GetValue), "gs" (GetStats)
\* or "ex" (Extra); r.rbuf holds what the exchange's bufio.Reader has
\* buffered and not yet handed out.
\* ------------------------------------------------------------------------
\* The exchange returns err; what is left is the deferred s.mu.Unlock().
EndExchange(r, err) == [r EXCEPT !.pc = "unlock", !.err = err]

\* WriteCommand after its ReadString: the trimmed line is the response.
WriteCommandLine(r, line) == EndExchange([r EXCEPT !.res = TrimSpace(line)], Nil)

\* GetValue from the header line to the allocation of the data block.
GetValueHeader(r, raw) ==
    Only({
    LET line == lp[1]
        parts == lp[2]
        withCAS == r.op.name = "Gets"
    IN  IF line = END THEN EndExchange(r, ErrNotFound)
        ELSE IF Len(parts) < 4 \/ parts[1] # VALUE THEN EndExchange(r, ErrUnexpectedResponse)
        ELSE IF withCAS /\ Len(parts) < 5 THEN EndExchange(r, ErrUnexpectedResponse)
        ELSE IF withCAS /\ ~Atoi(parts[5]).ok
             THEN EndExchange(r, Join(ErrInternal, <<"strconv.ParseUint">>))
        ELSE LET r1 == IF withCAS THEN [r EXCEPT !.cas = Atoi(parts[5]).n] ELSE r
                 byteCount == Atoi(parts[4])
             IN  IF ~byteCount.ok
                 THEN EndExchange(r1, Join(ErrInternal, <<"strconv.Atoi">>))
                 ELSE [r1 EXCEPT !.ph = "data", !.need = byteCount.n + 2]
    : lp \in {<<line, Split(line, SP)>> : line \in {TrimSpace(raw)}}})

\* GetValue's reader.Read(data) and value = string(data[:byteCount]): one
\* Read of the bufio.Reader copies what is buffered, at most len(data)
\* octets, and the rest of data keeps its zeros.
GetValueData(r) ==
    LET n == Min(r.need, Len(r.rbuf))
        data == SubSeq(r.rbuf, 1, n) \o Zeros(r.need - n)
    IN  [r EXCEPT !.value = SubSeq(data, 1, r.need - 2),
                  !.rbuf = SubSeq(r.rbuf, n + 1, Len(r.rbuf)),
                  !.ph = "end"]

\* GetValue's terminating line.
GetValueEnd(r, raw) ==
    IF TrimSpace(raw) # END THEN EndExchange(r, ErrUnexpectedResponse) ELSE EndExchange(r, Nil)

\* stats[key] = value on a Go map.
MapPut(m, k, v) == [x \in (DOMAIN m) \cup {k} |-> IF x = k THEN v ELSE m[x]]

\* One turn of GetStats' loop.
GetStatsLine(r, raw) ==
    Only({
    LET line == lp[1]
        parts == lp[2]
    IN  IF line = END THEN EndExchange(r, Nil)
        ELSE IF Len(parts) < 3 \/ parts[1] # STAT
             THEN EndExchange([r EXCEPT !.stats = <<>>], ErrUnexpectedResponse)
        ELSE [r EXCEPT !.stats = MapPut(r.stats, parts[2], parts[3])]
    : lp \in {<<line, SplitN(line, SP, 3)>> : line \in {TrimSpace(raw)}}})

\* One turn of Extra's loop.
ExtraLine(r, raw) ==
    LET line == TrimSpace(raw)
    IN  IF line = END THEN EndExchange(r, Nil)
        ELSE [r EXCEPT !.res = r.res \o line \o <<LF>>]

OnLine(r, raw) ==
    CASE r.x = "wc" -> WriteCommandLine(r, raw)
      [] r.x = "gv" /\ r.ph = "hdr" -> GetValueHeader(r, raw)
      [] r.x = "gv" /\ r.ph = "end" -> GetValueEnd(r, raw)
      [] r.x = "gs" -> GetStatsLine(r, raw)
      [] r.x = "ex" -> ExtraLine(r, raw)

\* The exchange runs on from what the reader has buffered until it returns
\* (pc "unlock") or needs octets from the connection (pc "read", a fresh
\* Conn.Read).  ReadString hands out the buffered octets through the first
\* LF, and fills the buffer while there is none.
RECURSIVE Advance(_)
Advance(r0) ==
    Only({IF r.pc = "unlock" THEN r
          ELSE IF r.ph = "data"
          THEN IF r.rbuf = <<>> THEN [r EXCEPT !.pc = "read", !.att = 1]
               ELSE Advance(GetValueData(r))
          ELSE Only({IF i = 0 THEN [r EXCEPT !.pc = "read", !.att = 1]
                     ELSE Advance(OnLine([r EXCEPT !.rbuf = SubSeq(r.rbuf, i + 1, Len(r.rbuf))],
                                         SubSeq(r.rbuf, 1, i)))
                     : i \in {IndexByte(r.rbuf, LF)}})
          : r \in {r0}})

\* The most octets the next read of the connection may bring: bufio reads
\* into the free part of its buffer, or straight into a destination that
\* is at least as large as the buffer.
ReadLimit(r) ==
    IF r.ph = "data" /\ r.need >= BufSize THEN r.need ELSE BufSize - Len(r.rbuf)

\* ------------------------------------------------------------------------
\* Conn: Write and Read with the single reconnect, as steps of thread t on
\* the Conn of its session th[t].srv.  th[t].io is "w" inside Conn.Write and
\* "r" inside Conn.Read, th[t].att the attempt (1: first, 2: the retry), and
\* th[t].clog the events of the Conn call in progress.
\* ------------------------------------------------------------------------
\* The error a failed operation on stream st returns.
StreamErr(st) == <<"io#1", "io#2", "io#3", "io#4", "io#5", "io#6", "io#7", "io#8">>[st]
DialErr == "dial: connection refused"
\* The name of stream st in the event logs.
StreamTag(st) == <<"s1", "s2", "s3", "s4", "s5", "s6", "s7", "s8">>[st]

Set1(f, t, r) == [f EXCEPT ![t] = r]

\* A run-time panic (nil dereference, index out of range, division by
\* zero) ends the process.
Panic(t, why) ==
    /\ th' = [th EXCEPT ![t].pc = "panic", ![t].err = <<why>>]
    /\ crashed' = TRUE

\* Events of a Conn call: the first attempt starts a new log.
Logged(r, ev) == IF r.att = 1 /\ ev[1] \in {"ok", "err"} THEN <<ev>> ELSE r.clog \o <<ev>>

\* Where Conn.Write or Conn.Read returns its error to: the exchange ends
\* with the error joined to the sentinel of the operation.
ConnFailed(r, e) ==
    EndExchange([r EXCEPT !.clog = r.clog \o <<<<"ret", e>>>>],
                Join(IF r.io = "w" THEN ErrWriteFailed ELSE ErrReadFailed, <<e>>))

\* A retry that is itself retried: the loop the code does not have.
AttemptFailedAgain(r, st) ==
    [r EXCEPT !.pc = "reclose", !.clog = Logged(r, <<"err", StreamErr(st)>>)]

\* The attempt on stream st failed (conn.go, lines 46-51 and 58-63): the
\* first attempt goes on to reconnect, the retry returns its error.
AttemptFailed(r, st) ==
    IF r.att = 1
    THEN [r EXCEPT !.pc = "reclose", !.clog = Logged(r, <<"err", StreamErr(st)>>)]
    ELSE ConnFailed([r EXCEPT !.clog = Logged(r, <<"err", StreamErr(st)>>)], StreamErr(st))

\* One lock for all the sessions instead of one per session.
SLockShared(t) ==
    /\ ~crashed
    /\ th[t].pc = "lock"
    /\ \A s \in 1..Len(sess) : sess[s].mu = 0
    /\ sess' = [sess EXCEPT ![th[t].srv].mu = t]
    /\ th' = [th EXCEPT ![t].pc = "write", ![t].io = "w", ![t].att = 1]
    /\ UNCHANGED <<intBits, up, peer, streams, arr, slen, cmu, faults, crashed, made, g, prog>>

\* s.mu.Lock() at the head of WriteCommand, GetValue, GetStats and Extra.
SLock(t) ==
    /\ ~crashed
    /\ th[t].pc = "lock"
    /\ sess[th[t].srv].mu = 0
    /\ sess' = [sess EXCEPT ![th[t].srv].mu = t]
    /\ th' = [th EXCEPT ![t].pc = "write", ![t].io = "w", ![t].att = 1]
    /\ UNCHANGED <<intBits, up, peer, streams, arr, slen, cmu, faults, crashed, made, g, prog>>

\* c.conn.Write(b): lines 45 and 50 of conn.go.  A write on the open stream
\* hands the whole command to the peer; then the exchange makes its reader.
ConnWrite(t) ==
    LET r == th[t]
        st == sess[r.srv].conn
    IN  /\ ~crashed
        /\ r.pc = "write"
        /\ IF st = 0
           THEN /\ Panic(t, "nil pointer dereference")
                /\ UNCHANGED <<streams, g>>
           ELSE IF streams[st].state = "open"
           THEN /\ streams' = [streams EXCEPT ![st].c2s = @ \o r.out]
                /\ th' = Set1(th, t, [r EXCEPT !.pc = "read", !.io = "r", !.att = 1,
                                               !.rbuf = <<>>, !.sent = @ \o <<r.srv>>,
                                               !.clog = Logged(r, <<"ok", StreamTag(st)>>) \o <<<<"ret", "nil">>>>])
                /\ g' = [g EXCEPT !.inflight[r.srv] = @ \cup {t}]
                /\ UNCHANGED crashed
           ELSE /\ th' = Set1(th, t, AttemptFailed(r, st))
                /\ UNCHANGED <<streams, g, crashed>>
        /\ UNCHANGED <<intBits, up, peer, sess, arr, slen, cmu, faults, made, prog>>

\* reconnect, lines 37-40: close the stale stream and forget it.
ConnReclose(t) ==
    LET r == th[t]
        st == sess[r.srv].conn
    IN  /\ ~crashed
        /\ r.pc = "reclose"
        /\ streams' = IF st = 0 THEN streams ELSE [streams EXCEPT ![st].state = "closed"]
        /\ sess' = [sess EXCEPT ![r.srv].conn = 0]
        /\ th' = [th EXCEPT ![t].pc = "redial",
                            ![t].clog = IF st = 0 THEN @ ELSE @ \o <<<<"close", StreamTag(st)>>>>]
        /\ UNCHANGED <<intBits, up, peer, arr, slen, cmu, faults, crashed, made, g, prog>>

\* connect, lines 24-34: dial unless a stream is there; the retry follows
\* a dial that worked, the dial's error is returned otherwise.
ConnRedial(t) ==
    LET r == th[t]
        a == sess[r.srv].Address
        id == Len(streams) + 1
    IN  /\ ~crashed
        /\ r.pc = "redial"
        /\ IF sess[r.srv].conn # 0
           THEN /\ th' = [th EXCEPT ![t].pc = IF r.io = "w" THEN "write" ELSE "read", ![t].att = 2]
                /\ UNCHANGED <<streams, sess>>
           ELSE IF a \in up
           THEN /\ id <= MaxStreams
                /\ streams' = Append(streams, NewStream(a))
                /\ sess' = [sess EXCEPT ![r.srv].conn = id]
                /\ th' = [th EXCEPT ![t].pc = IF r.io = "w" THEN "write" ELSE "read",
                                    ![t].att = 2, ![t].redials = @ + 1,
                                    ![t].clog = @ \o <<<<"dial", StreamTag(id)>>>>]
           ELSE /\ th' = Set1(th, t, ConnFailed([r EXCEPT !.redials = @ + 1,
                                                          !.clog = @ \o <<<<"dialerr", DialErr>>>>],
                                                DialErr))
                /\ UNCHANGED <<streams, sess>>
        /\ UNCHANGED <<intBits, up, peer, arr, slen, cmu, faults, crashed, made, g, prog>>

\* c.conn.Read(p): lines 57 and 62 of conn.go.  A read of the open stream
\* waits for octets and brings between one and ReadLimit of them.
ConnRead(t) ==
    LET r == th[t]
        st == sess[r.srv].conn
    IN  /\ ~crashed
        /\ r.pc = "read"
        /\ IF st = 0
           THEN /\ Panic(t, "nil pointer dereference")
                /\ UNCHANGED streams
           ELSE IF streams[st].state = "open"
           THEN /\ streams[st].s2c # <<>>
                /\ \E n \in 1..Min(ReadLimit(r), Len(streams[st].s2c)) :
                      /\ streams' = [streams EXCEPT ![st].s2c = SubSeq(@, n + 1, Len(@))]
                      /\ th' = Set1(th, t,
                               Advance([r EXCEPT !.pc = "run",
                                                 !.rbuf = @ \o SubSeq(streams[st].s2c, 1, n),
                                                 !.clog = Logged(r, <<"ok", StreamTag(st)>>) \o <<<<"ret", "nil">>>>]))
                /\ UNCHANGED crashed
           ELSE /\ th' = Set1(th, t, AttemptFailed(r, st))
                /\ UNCHANGED <<streams, crashed>>
        /\ UNCHANGED <<intBits, up, peer, sess, arr, slen, cmu, faults, made, g, prog>>

\* ------------------------------------------------------------------------
\* The peer: a memcached process behind an address, speaking the text
\* protocol whose request forms the Client's comments give.  It keeps, per
\* key, the value and its cas unique, and answers one request at a time.
\* ------------------------------------------------------------------------
NoEntry == [present |-> FALSE, val |-> <<>>, cas |-> 0]

ERROR == <<"E", "R", "R", "O", "R">>
NOT_STORED == <<"N", "O", "T", "_", "S", "T", "O", "R", "E", "D">>
EXISTS == <<"E", "X", "I", "S", "T", "S">>
VERSION == <<"V", "E", "R", "S", "I", "O", "N", SP, "1", ".", "6">>

Reply(p, line) == [peer |-> p, out |-> line \o CRLF]

Stored(p, k, v) ==
    Reply([p EXCEPT !.store[k] = [present |-> TRUE, val |-> v, cas |-> p.ctr + 1],
                    !.ctr = p.ctr + 1], STORED)

\* The reply to incr and decr of a value that is not a decimal number.
NON_NUMERIC ==
    <<"C", "L", "I", "E", "N", "T", "_", "E", "R", "R", "O", "R", SP, "c", "a", "n", "n", "o",
      "t", SP, "i", "n", "c", "r", "e", "m", "e", "n", "t", SP, "o", "r", SP, "d", "e",
      "c", "r", "e", "m", "e", "n", "t", SP, "n", "o", "n", "-", "n", "u", "m", "e", "r",
      "i", "c", SP, "v", "a", "l", "u", "e">>

\* incr and decr: the new number, decr stopping at zero.
Counted(p, k, cmd, delta) ==
    LET old == DecVal(p.store[k].val, 0)
        new == IF cmd = <<"i", "n", "c", "r">> THEN old + delta
               ELSE IF delta > old THEN 0 ELSE old - delta
    IN  [peer |-> [p EXCEPT !.store[k].val = Itoa(new), !.store[k].cas = p.ctr + 1,
                            !.ctr = p.ctr + 1],
         out |-> Itoa(new) \o CRLF]

RECURSIVE StatLines(_)
StatLines(ss) ==
    IF ss = <<>> THEN END \o CRLF
    ELSE STAT \o <<SP>> \o Head(ss)[1] \o <<SP>> \o Head(ss)[2] \o CRLF \o StatLines(Tail(ss))

\* The answer to the request with the command line tokens tk and, for a
\* storage command, the data block.
PeerAnswer(p, tk, data) ==
    LET cmd == tk[1]
        k == IF Len(tk) >= 2 THEN tk[2] ELSE <<>>
        known == k \in DOMAIN p.store
        e == IF known THEN p.store[k] ELSE NoEntry
    IN  CASE cmd = <<"s", "e", "t">> /\ known -> Stored(p, k, data)
          [] cmd = <<"a", "d", "d">> /\ known ->
                IF e.present THEN Reply(p, NOT_STORED) ELSE Stored(p, k, data)
          [] cmd = <<"r", "e", "p", "l", "a", "c", "e">> /\ known ->
                IF e.present THEN Stored(p, k, data) ELSE Reply(p, NOT_STORED)
          [] cmd = <<"a", "p", "p", "e", "n", "d">> /\ known ->
                IF e.present THEN Stored(p, k, e.val \o data) ELSE Reply(p, NOT_STORED)
          [] cmd = <<"p", "r", "e", "p", "e", "n", "d">> /\ known ->
                IF e.present THEN Stored(p, k, data \o e.val) ELSE Reply(p, NOT_STORED)
          [] cmd = <<"c", "a", "s">> /\ known /\ Len(tk) >= 6 ->
                IF ~e.present THEN Reply(p, NOT_FOUND)
                ELSE IF Atoi(tk[6]).ok /\ Atoi(tk[6]).n = e.cas THEN Stored(p, k, data)
                ELSE Reply(p, EXISTS)
          [] cmd = <<"g", "e", "t">> /\ known ->
                IF e.present
                THEN [peer |-> p,
                      out |-> VALUE \o <<SP>> \o k \o <<SP, "0", SP>> \o Itoa(Len(e.val)) \o CRLF
                              \o e.val \o CRLF \o END \o CRLF]
                ELSE Reply(p, END)
          [] cmd = <<"g", "e", "t", "s">> /\ known ->
                IF e.present
                THEN [peer |-> p,
                      out |-> VALUE \o <<SP>> \o k \o <<SP, "0", SP>> \o Itoa(Len(e.val))
                              \o <<SP>> \o Itoa(e.cas) \o CRLF
                              \o e.val \o CRLF \o END \o CRLF]
                ELSE Reply(p, END)
          [] cmd = <<"d", "e", "l", "e", "t", "e">> /\ known ->
                IF e.present THEN Reply([p EXCEPT !.store[k] = NoEntry], DELETED)
                ELSE Reply(p, NOT_FOUND)
          [] cmd \in {<<"i", "n", "c", "r">>, <<"d", "e", "c", "r">>} /\ known /\ Len(tk) >= 3
             /\ Atoi(tk[3]).ok ->
                IF ~e.present THEN Reply(p, NOT_FOUND)
                ELSE IF ~AllDigits(e.val) THEN Reply(p, NON_NUMERIC)
                ELSE Counted(p, k, cmd, Atoi(tk[3]).n)
          [] cmd = <<"f", "l", "u", "s", "h", "_", "a", "l", "l">> ->
                IF p.ok THEN Reply([p EXCEPT !.store = [x \in DOMAIN p.store |-> NoEntry],
                                             !.flushed = TRUE], OK)
                ELSE Reply(p, ERROR)
          [] cmd = <<"v", "e", "r", "b", "o", "s", "i", "t", "y">> ->
                IF p.ok /\ Len(tk) >= 2 /\ Atoi(tk[2]).ok
                THEN Reply([p EXCEPT !.verbosity = Atoi(tk[2]).n], OK)
                ELSE Reply(p, ERROR)
          [] cmd = <<"v", "e", "r", "s", "i", "o", "n">> -> Reply(p, VERSION)
          [] cmd = <<"s", "t", "a", "t", "s">> -> [peer |-> p, out |-> StatLines(p.stats)]
          [] OTHER -> Reply(p, ERROR)

StorageCmds ==
    {<<"s", "e", "t">>, <<"a", "d", "d">>, <<"r", "e", "p", "l", "a", "c", "e">>,
     <<"a", "p", "p", "e", "n", "d">>, <<"p", "r", "e", "p", "e", "n", "d">>, <<"c", "a", "s">>}

\* The first request in the octets `in` the peer has received: its command
\* line, its data block (the length the command line announces) and what
\* follows it; ok is FALSE while the request is incomplete.
PeerParse(in) ==
    Only({
    LET i == it[1]
        tk == it[2]
        storage == tk[1] \in StorageCmds /\ Len(tk) >= 5 /\ Atoi(tk[5]).ok
        n == IF storage THEN Atoi(tk[5]).n ELSE 0
        rest == SubSeq(in, i + 1, Len(in))
    IN  IF i = 0 THEN [ok |-> FALSE]
        ELSE IF ~storage THEN [ok |-> TRUE, tk |-> tk, data |-> <<>>, rest |-> rest]
        ELSE IF Len(rest) < n + 2 THEN [ok |-> FALSE]
        ELSE [ok |-> TRUE, tk |-> tk, data |-> SubSeq(rest, 1, n),
              rest |-> SubSeq(rest, n + 3, Len(rest))]
    : it \in {<<i, Split(TrimSpace(SubSeq(in, 1, i)), SP)>> : i \in {IndexByte(in, LF)}}})

\* The peer behind stream st serves the next request it has received.
PeerServe(st) ==
    /\ ~crashed
    /\ streams[st].state = "open"
    /\ ~peer[streams[st].addr].hung
    /\ \E rq \in {PeerParse(streams[st].c2s)} :
          /\ rq.ok
          /\ \E ans \in {PeerAnswer(peer[streams[st].addr], rq.tk, rq.data)} :
                /\ peer' = [peer EXCEPT ![streams[st].addr] = ans.peer]
                /\ streams' = [streams EXCEPT ![st].c2s = rq.rest, ![st].s2c = @ \o ans.out]
                /\ g' = [g EXCEPT !.served = @ \o <<[st |-> st, tk |-> rq.tk, out |-> ans.out]>>]
    /\ UNCHANGED <<intBits, up, sess, arr, slen, cmu, th, faults, crashed, made, prog>>

\* ------------------------------------------------------------------------
\* Client: the request each command formats, and what it makes of the
\* exchange's result.
\* ------------------------------------------------------------------------
KeyRouted == {"Set", "Add", "Replace", "Append", "Prepend", "CAS", "Get", "Gets",
              "Delete", "Increment", "Decrement", "Touch"}
AddrRouted == {"Stats", "Version", "Extra", "Quit"}
FanOut == {"FlushAll", "Verbosity", "StatsAll", "Versions", "QuitAll"}

Wire(name) ==
    CASE name = "Set" -> <<"s", "e", "t">>
      [] name = "Add" -> <<"a", "d", "d">>
      [] name = "Replace" -> <<"r", "e", "p", "l", "a", "c", "e">>
      [] name = "Append" -> <<"a", "p", "p", "e", "n", "d">>
      [] name = "Prepend" -> <<"p", "r", "e", "p", "e", "n", "d">>
      [] name = "CAS" -> <<"c", "a", "s">>
      [] name = "Get" -> <<"g", "e", "t">>
      [] name = "Gets" -> <<"g", "e", "t", "s">>
      [] name = "Delete" -> <<"d", "e", "l", "e", "t", "e">>
      [] name = "Increment" -> <<"i", "n", "c", "r">>
      [] name = "Decrement" -> <<"d", "e", "c", "r">>
      [] name = "Touch" -> <<"t", "o", "u", "c", "h">>
      [] name = "FlushAll" -> <<"f", "l", "u", "s", "h", "_", "a", "l", "l">>
      [] name = "Verbosity" -> <<"v", "e", "r", "b", "o", "s", "i", "t", "y">>
      [] name \in {"Version", "Versions"} -> <<"v", "e", "r", "s", "i", "o", "n">>
      [] name \in {"Stats", "StatsAll"} -> <<"s", "t", "a", "t", "s">>

\* The fmt.Sprintf of each command.  op.exp carries the one integer argument
\* of the commands that have one (expiration, delta, seconds, level).
Command(op) ==
    LET nm == Wire(op.name)
    IN  CASE op.name \in {"Set", "Add", "Replace"} ->
               Concat(<<nm, <<SP>>, op.key, <<SP, "0", SP>>, Itoa(op.exp), <<SP>>,
                        Itoa(Len(op.val)), CRLF, op.val, CRLF>>)
          [] op.name \in {"Append", "Prepend"} ->
               Concat(<<nm, <<SP>>, op.key, <<SP, "0", SP, "0", SP>>,
                        Itoa(Len(op.val)), CRLF, op.val, CRLF>>)
          [] op.name = "CAS" ->
               Concat(<<nm, <<SP>>, op.key, <<SP, "0", SP>>, Itoa(op.exp), <<SP>>,
                        Itoa(Len(op.val)), <<SP>>, Itoa(op.cas), CRLF, op.val, CRLF>>)
          [] op.name \in {"Get", "Gets", "Delete"} -> Concat(<<nm, <<SP>>, op.key, CRLF>>)
          [] op.name \in {"Increment", "Decrement", "Touch"} ->
               Concat(<<nm, <<SP>>, op.key, <<SP>>, Itoa(op.exp), CRLF>>)
          [] op.name \in {"FlushAll", "Verbosity"} -> Concat(<<nm, <<SP>>, Itoa(op.exp), CRLF>>)
          [] op.name \in {"Version", "Versions", "Stats", "StatsAll"} -> nm \o CRLF
          [] op.name = "Extra" -> op.cmd

\* The Server method each command runs its exchange with.
Exchange(name) ==
    CASE name \in {"Get", "Gets"} -> "gv"
      [] name \in {"Stats", "StatsAll"} -> "gs"
      [] name = "Extra" -> "ex"
      [] OTHER -> "wc"

\* The command calls the Server method on session s: next is s.mu.Lock().
Begin(r, s) ==
    [r EXCEPT !.pc = "lock", !.srv = s, !.x = Exchange(r.op.name), !.out = Command(r.op),
              !.ph = IF Exchange(r.op.name) = "gv" THEN "hdr" ELSE "line",
              !.rbuf = <<>>, !.need = 0, !.value = <<>>, !.cas = 0, !.res = <<>>,
              !.stats = <<>>, !.err = Nil]

\* The call returns ret to the calling program.
Return(r, ret) ==
    [r EXCEPT !.pc = "ret", !.ret = ret, !.calls = @ + 1,
              !.hist = @ \o <<[op |-> r.op, ret |-> ret, sent |-> r.sent]>>,
              !.tok = IF r.op.name = "Gets" /\ ret.err = Nil THEN ret.cas ELSE @]

Failed(e) == [NoRet EXCEPT !.err = e]

\* for key, value := range stats: the first value a key got stays.
\* A merge in which the server visited last wins.
MergeStatsLast(merged, stats) ==
    [k \in (DOMAIN merged) \cup (DOMAIN stats) |->
        IF k \in DOMAIN stats THEN stats[k] ELSE merged[k]]

MergeStats(merged, stats) ==
    [k \in (DOMAIN merged) \cup (DOMAIN stats) |->
        IF k \in DOMAIN merged THEN merged[k] ELSE stats[k]]

\* The next turn of a loop over the sessions, or the end of the loop.
NextTurn(r) == [r EXCEPT !.pc = "iter", !.it = @ + 1]

\* A loop that goes on to the next session whatever the reply was.
FanOutGoesOn(r) ==
    IF r.err # Nil THEN Return(r, Failed(Join(ErrWriteFailed, r.err)))
    ELSE NextTurn(r)

\* The body of the loop of FlushAll and of Verbosity after WriteCommand.
FanOutReply(r) ==
    IF r.err # Nil THEN Return(r, Failed(Join(ErrWriteFailed, r.err)))
    ELSE IF r.res # OK THEN Return(r, Failed(ErrStoreFailed))
    ELSE NextTurn(r)

\* A command that takes every reply that is not a number for a failure.
CounterReplyStrict(r) ==
    IF r.err # Nil THEN Failed(Join(ErrWriteFailed, r.err))
    ELSE IF r.res = NOT_FOUND \/ ~AllDigits(r.res) THEN Failed(ErrNotFound)
    ELSE [NoRet EXCEPT !.n = Sscanf(r.res)]

\* Increment and Decrement after WriteCommand.
CounterReply(r) ==
    IF r.err # Nil THEN Failed(Join(ErrWriteFailed, r.err))
    ELSE IF r.res = NOT_FOUND THEN Failed(ErrNotFound)
    ELSE [NoRet EXCEPT !.n = Sscanf(r.res)]

\* What the command does with the result of its exchange (r.err, r.res,
\* r.value, r.cas, r.stats) once the Server method has returned.
Finish(r) ==
    LET nm == r.op.name
        wrapped == Failed(Join(ErrWriteFailed, r.err))
    IN  CASE nm \in {"Set", "Add", "Replace", "Append", "Prepend", "CAS"} ->
               Return(r, IF r.err # Nil THEN wrapped
                         ELSE IF r.res # STORED THEN Failed(ErrStoreFailed) ELSE NoRet)
          [] nm = "Delete" ->
               Return(r, IF r.err # Nil THEN wrapped
                         ELSE IF r.res # DELETED THEN Failed(ErrStoreFailed) ELSE NoRet)
          [] nm = "Touch" ->
               Return(r, IF r.err # Nil THEN wrapped
                         ELSE IF r.res # OK THEN Failed(ErrStoreFailed) ELSE NoRet)
          [] nm = "Get" -> Return(r, [NoRet EXCEPT !.value = r.value, !.err = r.err])
          [] nm = "Gets" ->
               Return(r, [NoRet EXCEPT !.value = r.value, !.cas = r.cas, !.err = r.err])
          [] nm \in {"Increment", "Decrement"} -> Return(r, CounterReply(r))
          [] nm \in {"FlushAll", "Verbosity"} -> FanOutReply(r)
          [] nm = "StatsAll" ->
               IF r.err # Nil
               THEN Return(r, [NoRet EXCEPT !.stats = r.merged, !.err = Join(ErrWriteFailed, r.err)])
               ELSE NextTurn([r EXCEPT !.merged = MergeStats(r.merged, r.stats)])
          [] nm = "Versions" ->
               IF r.err # Nil THEN Return(r, wrapped)
               ELSE NextTurn([r EXCEPT !.merged = MapPut(r.merged, sess[r.srv].Address,
                                                         TrimSpace(r.res))])
          [] nm = "Stats" -> Return(r, [NoRet EXCEPT !.stats = r.stats, !.err = r.err])
          [] nm = "Version" ->
               Return(r, IF r.err # Nil THEN wrapped ELSE [NoRet EXCEPT !.res = TrimSpace(r.res)])
          [] nm = "Extra" ->
               Return(r, [NoRet EXCEPT !.res = r.res,
                                       !.err = IF r.err # Nil THEN Join(ErrWriteFailed, r.err)
                                               ELSE Nil])

\* The deferred s.mu.Unlock() as the Server method returns; the command
\* then acts on the result.
SUnlock(t) ==
    /\ ~crashed
    /\ th[t].pc = "unlock"
    /\ sess' = [sess EXCEPT ![th[t].srv].mu = 0]
    /\ th' = Set1(th, t, Finish(th[t]))
    /\ g' = [g EXCEPT !.inflight[th[t].srv] = @ \ {t}]
    /\ UNCHANGED <<intBits, up, peer, streams, arr, slen, cmu, faults, crashed, made, prog>>

\* A CAS call whose argument is the token the thread's last Gets returned.
UseToken == 0 - 1

\* The calling program makes its next call.
Invoke(t) ==
    /\ ~crashed
    /\ made = "client"
    /\ th[t].pc \in {"idle", "ret"}
    /\ th[t].calls < prog[t].max
    /\ \E c \in prog[t].calls :
          /\ c.name = "CAS" /\ c.cas = UseToken =>
                /\ th[t].hist # <<>>
                /\ th[t].hist[Len(th[t].hist)].op.name = "Gets"
                /\ th[t].hist[Len(th[t].hist)].op.key = c.key
                /\ th[t].hist[Len(th[t].hist)].ret.err = Nil
          /\ th' = [th EXCEPT ![t].op = IF c.name = "CAS" /\ c.cas = UseToken
                                       THEN [c EXCEPT !.cas = th[t].tok] ELSE c,
                              ![t].pc = IF c.name \in KeyRouted THEN "pick"
                                        ELSE IF c.name \in AddrRouted THEN "rlock" ELSE "range",
                              ![t].redials = 0, ![t].sent = <<>>, ![t].merged = <<>>,
                              ![t].it = 0, ![t].snap = 0, ![t].srv = 0, ![t].idx = 0,
                              ![t].clog = <<>>, ![t].atEmpty = (slen = 0 \/ g.emptied)]
    /\ UNCHANGED <<intBits, up, peer, streams, sess, arr, slen, cmu, faults, crashed, made, g, prog>>

\* pickServer, line 257: the unlocked length check.
PickLen(t) ==
    /\ ~crashed
    /\ th[t].pc = "pick"
    /\ th' = Set1(th, t, IF slen = 0 THEN Return(th[t], Failed(ErrNoServers))
                         ELSE [th[t] EXCEPT !.pc = "rlock"])
    /\ UNCHANGED <<intBits, up, peer, streams, sess, arr, slen, cmu, faults, crashed, made, g, prog>>

\* c.mu.RLock() of pickServer and pickServerFromAddr.  No code path takes
\* the write lock, so a reader never waits.
RLock(t) ==
    /\ ~crashed
    /\ th[t].pc = "rlock"
    /\ cmu' = cmu \cup {t}
    /\ th' = [th EXCEPT ![t].pc = IF th[t].op.name \in KeyRouted THEN "pickidx" ELSE "scan"]
    /\ UNCHANGED <<intBits, up, peer, streams, sess, arr, slen, faults, crashed, made, g, prog>>

\* pickServer, lines 263-264: the hash and the index.
PickIdx(t) ==
    /\ ~crashed
    /\ th[t].pc = "pickidx"
    /\ IF slen = 0
       THEN Panic(t, "integer divide by zero") /\ cmu' = cmu \ {t}
       ELSE /\ th' = [th EXCEPT ![t].pc = "pickget",
                                ![t].idx = PickIndex(ChecksumIEEE(th[t].op.key), slen, intBits)]
            /\ UNCHANGED <<cmu, crashed>>
    /\ UNCHANGED <<intBits, up, peer, streams, sess, arr, slen, faults, made, g, prog>>

\* pickServer, line 265 and the return: the indexing, the deferred RUnlock,
\* and the command's call of the Server method on the session picked.
PickGet(t) ==
    LET r == th[t]
    IN  /\ ~crashed
        /\ r.pc = "pickget"
        /\ cmu' = cmu \ {t}
        /\ IF r.idx < 0 \/ r.idx >= slen
           THEN Panic(t, "index out of range")
           ELSE th' = Set1(th, t, Begin(r, arr[r.idx + 1])) /\ UNCHANGED crashed
        /\ UNCHANGED <<intBits, up, peer, streams, sess, arr, slen, faults, made, g, prog>>

\* The index pickServerFromAddr's loop stops at: the first session with the
\* address, or the length when there is none.
RECURSIVE ScanFrom(_, _)
ScanFrom(addr, i) ==
    IF i >= slen THEN slen
    ELSE IF sess[arr[i + 1]].Address = addr THEN i ELSE ScanFrom(addr, i + 1)

\* pickServerFromAddr under the read lock, and what its caller does next.
Scan(t) ==
    LET r == th[t]
        i == ScanFrom(r.op.addr, 0)
    IN  /\ ~crashed
        /\ r.pc = "scan"
        /\ cmu' = cmu \ {t}
        /\ th' = Set1(th, t,
                    IF i >= slen THEN Return(r, Failed(ErrNotFound))
                    ELSE IF r.op.name = "Quit" THEN [r EXCEPT !.pc = "qclose", !.idx = i]
                    ELSE Begin([r EXCEPT !.idx = i], arr[i + 1]))
        /\ UNCHANGED <<intBits, up, peer, streams, sess, arr, slen, faults, crashed, made, g, prog>>

\* Server.Close on session s: s.conn.conn.Close(), a nil dereference when
\* the Conn holds no stream.
CloseSession(t, s) ==
    IF sess[s].conn = 0
    THEN Panic(t, "nil pointer dereference") /\ UNCHANGED <<streams, g>>
    ELSE /\ streams' = [streams EXCEPT ![sess[s].conn].state = "closed"]
         /\ g' = [g EXCEPT !.closed = @ \o <<s>>]
         /\ UNCHANGED crashed

\* Quit, line 615: c.servers[index].Close().
QuitClose(t) ==
    LET r == th[t]
    IN  /\ ~crashed
        /\ r.pc = "qclose"
        /\ IF r.idx >= slen
           THEN Panic(t, "index out of range") /\ UNCHANGED <<streams, g>>
           ELSE /\ CloseSession(t, arr[r.idx + 1])
                /\ IF sess[arr[r.idx + 1]].conn = 0 THEN TRUE
                   ELSE th' = [th EXCEPT ![t].pc = "qremove"]
        /\ UNCHANGED <<intBits, up, peer, sess, arr, slen, cmu, faults, made, prog>>

\* A removal that drops the last session whatever the index.
RemoveLast(a, n, index) == a

\* append(s[:index], s[index+1:]...) on the backing array a of a slice of
\* length n: the elements after index move down by one, in place, and the
\* last slot keeps what it held.
RemoveAt(a, n, index) ==
    [i \in 1..Len(a) |-> IF i > index /\ i < n THEN a[i + 1] ELSE a[i]]

\* Quit, line 616, the right-hand side: c.servers is read, sliced, and the
\* elements are moved within the backing array; the new length is in hand.
QuitRemove(t) ==
    LET r == th[t]
    IN  /\ ~crashed
        /\ r.pc = "qremove"
        /\ IF r.idx + 1 > slen
           THEN Panic(t, "slice bounds out of range") /\ UNCHANGED arr
           ELSE /\ arr' = RemoveAt(arr, slen, r.idx)
                /\ th' = [th EXCEPT ![t].pc = "qstore", ![t].snap = slen - 1]
                /\ UNCHANGED crashed
        /\ UNCHANGED <<intBits, up, peer, streams, sess, slen, cmu, faults, made, g, prog>>

\* Quit, lines 616-617: the assignment to c.servers of the slice computed,
\* and the return.  No lock is held between the read of c.servers and this
\* store.
QuitStore(t) ==
    LET r == th[t]
    IN  /\ ~crashed
        /\ r.pc = "qstore"
        /\ slen' = r.snap
        /\ g' = [g EXCEPT !.emptied = @ \/ r.snap = 0]
        /\ th' = Set1(th, t, Return(r, NoRet))
        /\ UNCHANGED <<intBits, up, peer, streams, sess, arr, cmu, faults, crashed, made, prog>>

\* for _, server := range c.servers: the range expression is evaluated
\* once, so the loop runs over the length read here.
Range(t) ==
    /\ ~crashed
    /\ th[t].pc = "range"
    /\ th' = [th EXCEPT ![t].pc = "iter", ![t].snap = slen, ![t].it = 0]
    /\ UNCHANGED <<intBits, up, peer, streams, sess, arr, slen, cmu, faults, crashed, made, g, prog>>

\* One turn of the loop of FlushAll, Verbosity, StatsAll, Versions and
\* QuitAll over the sessions, or what follows the loop.
Iter(t) ==
    LET r == th[t]
        nm == r.op.name
    IN  /\ ~crashed
        /\ r.pc = "iter"
        /\ IF r.it >= r.snap
           THEN /\ th' = Set1(th, t, Return(r, IF nm \in {"StatsAll", "Versions"}
                                               THEN [NoRet EXCEPT !.stats = r.merged]
                                               ELSE NoRet))
                /\ slen' = IF nm = "QuitAll" THEN 0 ELSE slen
                /\ g' = [g EXCEPT !.emptied = @ \/ nm = "QuitAll"]
                /\ UNCHANGED <<streams, crashed>>
           ELSE IF nm = "QuitAll"
           THEN /\ CloseSession(t, arr[r.it + 1])
                /\ IF sess[arr[r.it + 1]].conn = 0 THEN TRUE
                   ELSE th' = [th EXCEPT ![t].it = @ + 1]
                /\ UNCHANGED slen
           ELSE /\ th' = Set1(th, t, Begin(r, arr[r.it + 1]))
                /\ UNCHANGED <<streams, g, crashed, slen>>
        /\ UNCHANGED <<intBits, up, peer, sess, arr, cmu, faults, made, prog>>

\* ------------------------------------------------------------------------
\* The environment: a stream fails (the peer resets it, the network drops
\* it), a peer stops or starts accepting connections.
\* ------------------------------------------------------------------------
Drop(st) ==
    /\ ~crashed
    /\ faults > 0
    /\ streams[st].state = "open"
    /\ streams' = [streams EXCEPT ![st].state = "broken"]
    /\ faults' = faults - 1
    /\ UNCHANGED <<intBits, up, peer, sess, arr, slen, cmu, th, crashed, made, g, prog>>

Refuse(a) ==
    /\ ~crashed
    /\ faults > 0
    /\ a \in up
    /\ up' = up \ {a}
    /\ faults' = faults - 1
    /\ UNCHANGED <<intBits, peer, streams, sess, arr, slen, cmu, th, crashed, made, g, prog>>

\* ------------------------------------------------------------------------
\* NewClient, and the state a constructed client starts in
\* ------------------------------------------------------------------------
\* Longest address list NewClient is given.
MaxAddrs == 3

\* The number of addresses, from the first on, NewClient's loop dials with
\* success: the loop returns at the first dial that fails.
RECURSIVE DialedOk(_, _)
DialedOk(addrs, reach) ==
    IF addrs = <<>> \/ Head(addrs) \notin reach THEN 0 ELSE 1 + DialedOk(Tail(addrs), reach)

\* NewServer for each address in turn: Server i holds Conn i on stream i.
Servers(addrs) == [i \in 1..Len(addrs) |-> [Address |-> addrs[i], conn |-> i, mu |-> 0]]

\* A constructor that goes on after a dial that failed.
NewClientLenient(addrs, reach) ==
    IF Len(addrs) = 0 THEN [made |-> "failed", err |-> ErrEmptyAddresses, dialed |-> <<>>,
                            sess |-> <<>>, attempts |-> 0]
    ELSE [made |-> "client", err |-> Nil, dialed |-> addrs, sess |-> Servers(addrs),
          attempts |-> Len(addrs)]

\* NewClient(addresses...): (c, err) and the streams it dialled.
NewClientResult(addrs, reach) ==
    LET k == DialedOk(addrs, reach)
    IN  IF Len(addrs) = 0 THEN [made |-> "failed", err |-> ErrEmptyAddresses, dialed |-> <<>>,
                                sess |-> <<>>, attempts |-> 0]
        ELSE IF k < Len(addrs)
        THEN [made |-> "failed", err |-> <<DialErr>>, dialed |-> SubSeq(addrs, 1, k),
              sess |-> <<>>, attempts |-> k + 1]
        ELSE [made |-> "client", err |-> Nil, dialed |-> addrs, sess |-> Servers(addrs),
              attempts |-> k]

AddrLists == UNION {[1..n -> Addrs] : n \in 0..MaxAddrs}

NewClient(addrs) ==
    LET res == NewClientResult(addrs, up)
    IN  /\ made = "none"
        /\ made' = res.made
        /\ streams' = [i \in 1..Len(res.dialed) |-> NewStream(res.dialed[i])]
        /\ sess' = res.sess
        /\ arr' = [i \in 1..Len(res.sess) |-> i]
        /\ slen' = Len(res.sess)
        /\ g' = [g EXCEPT !.newerr = res.err, !.given = addrs, !.attempts = res.attempts]
        /\ UNCHANGED <<intBits, up, peer, cmu, th, faults, crashed, prog>>

Peer0 ==
    [store |-> [k \in Keys |-> NoEntry], ctr |-> 0, ok |-> TRUE, flushed |-> FALSE,
     verbosity |-> 0, stats |-> <<>>, hung |-> FALSE]

G0 ==
    [inflight |-> [s \in 1..MaxAddrs + 1 |-> {}], served |-> <<>>, closed |-> <<>>, emptied |-> FALSE,
     newerr |-> Nil, given |-> <<>>, attempts |-> 0]

NoProg == [calls |-> {}, max |-> 0]

\* Before NewClient: no client, no stream.
Unmade ==
    /\ intBits \in {32, 64}
    /\ peer = [a \in Addrs |-> Peer0]
    /\ streams = <<>>
    /\ sess = <<>>
    /\ arr = <<>>
    /\ slen = 0
    /\ cmu = {}
    /\ th = [t \in Threads |-> IdleThread]
    /\ faults = 0
    /\ crashed = FALSE
    /\ made = "none"
    /\ g = G0
    /\ prog = [t \in Threads |-> NoProg]

\* The state NewClient(addrs...) returns a client in, every address being
\* reachable.
Constructed(addrs) ==
    LET res == NewClientResult(addrs, Addrs)
    IN  /\ intBits \in {32, 64}
        /\ up = Addrs
        /\ streams = [i \in 1..Len(res.dialed) |-> NewStream(res.dialed[i])]
        /\ sess = res.sess
        /\ arr = [i \in 1..Len(res.sess) |-> i]
        /\ slen = Len(res.sess)
        /\ cmu = {}
        /\ th = [t \in Threads |-> IdleThread]
        /\ crashed = FALSE
        /\ made = res.made
        /\ g = [G0 EXCEPT !.given = addrs, !.attempts = res.attempts]

\* The steps of a command that is routed by its key.
KeyStep(t) ==
    \/ Invoke(t)
    \/ PickLen(t)
    \/ RLock(t)
    \/ PickIdx(t)
    \/ PickGet(t)
    \/ SLock(t)
    \/ ConnWrite(t)
    \/ ConnRead(t)
    \/ SUnlock(t)

\* ------------------------------------------------------------------------
\* SpecRT: one thread stores and fetches one key on a client of one session
\* ------------------------------------------------------------------------
Values == {<<"x">>, <<NUL, CR, LF>>, <<"x", "E", "N", "D", LF>>}

InitRT ==
    /\ Constructed(<<A1>>)
    /\ peer = [a \in Addrs |-> Peer0]
    /\ faults = 0
    /\ prog = [t \in Threads |->
                 IF t = 1
                 THEN [calls |-> {Call("Set", <<"b">>, v, 0, 0, "", <<>>) : v \in Values}
                                 \cup {Call("Get", <<"b">>, <<>>, 0, 0, "", <<>>)},
                       max |-> MaxCalls]
                 ELSE NoProg]

NextRT ==
    \/ \E t \in Threads : KeyStep(t)
    \/ \E st \in 1..Len(streams) : PeerServe(st)

SpecRT == InitRT /\ [][NextRT]_vars

\* Call i of thread t is a Get that follows, as the thread's next call, a
\* Set of the same key that returned nil.
GetAfterSet(t, i) ==
    LET h == th[t].hist
    IN  /\ i \in 2..Len(h)
        /\ h[i].op.name = "Get"
        /\ h[i - 1].op.name = "Set"
        /\ h[i - 1].op.key = h[i].op.key
        /\ h[i - 1].ret.err = Nil

\* C1: a Set that succeeded, followed by a Get of the same key with no write
\* in between, makes the Get return exactly the value set and a nil error.
C1_RoundTrip ==
    \A t \in Threads : \A i \in 1..Len(th[t].hist) :
        GetAfterSet(t, i) =>
            /\ th[t].hist[i].ret.err = Nil
            /\ th[t].hist[i].ret.value = th[t].hist[i - 1].op.val

\* ------------------------------------------------------------------------
\* SpecConn: one thread's commands on one session whose streams fail and
\* whose peer may stop accepting connections
\* ------------------------------------------------------------------------
\* Failures the environment induces.
MaxFaults == 2

InitConn ==
    /\ Constructed(<<A1>>)
    /\ peer = [a \in Addrs |-> Peer0]
    /\ faults = MaxFaults
    /\ prog = [t \in Threads |->
                 IF t = 1
                 THEN [calls |-> {Call("Set", <<"b">>, <<"x">>, 0, 0, "", <<>>),
                                  Call("Get", <<"b">>, <<>>, 0, 0, "", <<>>)},
                       max |-> MaxCalls]
                 ELSE NoProg]

NextConn ==
    \/ \E t \in Threads : KeyStep(t)
    \/ \E t \in Threads : ConnReclose(t)
    \/ \E t \in Threads : ConnRedial(t)
    \/ \E st \in 1..Len(streams) : PeerServe(st)
    \/ \E st \in 1..Len(streams) : Drop(st)
    \/ \E s \in 1..Len(sess) : Refuse(sess[s].Address)

SpecConn == InitConn /\ [][NextConn]_vars

\* The events l of one Conn.Write or Conn.Read call, as far as it has come,
\* are those of a call that tries once, and after a failure closes the
\* stale stream, dials once and tries once more on the stream dialled.
OneRetry(l) ==
    /\ Len(l) <= 5
    /\ Len(l) >= 1 => l[1][1] \in {"ok", "err"}
    /\ Len(l) >= 1 /\ l[1][1] = "ok" => Len(l) <= 2 /\ (Len(l) = 2 => l[2] = <<"ret", "nil">>)
    /\ Len(l) >= 2 /\ l[1][1] = "err" =>
          /\ l[2][1] = "close"
          /\ \E st \in 1..Len(streams) : l[1][2] = StreamErr(st) /\ l[2][2] = StreamTag(st)
    /\ Len(l) >= 3 /\ l[1][1] = "err" => l[3][1] \in {"dial", "dialerr"}
    /\ Len(l) >= 4 /\ l[3][1] = "dialerr" => Len(l) = 4 /\ l[4] = <<"ret", l[3][2]>>
    /\ Len(l) >= 4 /\ l[3][1] = "dial" =>
          \E st \in 1..Len(streams) :
              /\ l[3][2] = StreamTag(st)
              /\ l[2][2] # StreamTag(st)
              /\ l[4] \in {<<"ok", StreamTag(st)>>, <<"err", StreamErr(st)>>}
    /\ Len(l) = 5 => l[5] = <<"ret", IF l[4][1] = "ok" THEN "nil" ELSE l[4][2]>>

\* The Conn call of thread t has returned the error e to the Server method,
\* which hands it on joined to its sentinel.
Surfaced(t) ==
    LET l == th[t].clog
    IN  th[t].pc = "unlock" /\ l # <<>> /\ l[Len(l)][1] = "ret" /\ l[Len(l)][2] # "nil"
            => th[t].err \in {Join(ErrWriteFailed, <<l[Len(l)][2]>>),
                              Join(ErrReadFailed, <<l[Len(l)][2]>>)}

\* C2: Conn.Write and Conn.Read try once; a failure closes the stale
\* stream, dials once and retries once on the new stream; success of the
\* retry is the caller's result, and the error of the retry or of the dial
\* is returned as it is, with no further attempt.
C2_OneReconnectOneRetry ==
    \A t \in Threads : OneRetry(th[t].clog) /\ Surfaced(t)

\* A Conn.Write failed once, redialled, and its resend succeeded.
C2_Witness ==
    \E t \in Threads :
        /\ Len(th[t].clog) = 5
        /\ th[t].clog[1][1] = "err"
        /\ th[t].clog[4][1] = "ok"
        /\ th[t].io = "r"

\* ------------------------------------------------------------------------
\* SpecMutex: every thread runs commands of all four Server methods on the
\* one session of the client
\* ------------------------------------------------------------------------
StatsCmd == <<"s", "t", "a", "t", "s">> \o CRLF

\* One command per Server method: WriteCommand, GetValue, GetStats, Extra.
MethodCalls ==
    {Call("Set", <<"b">>, <<"x">>, 0, 0, "", <<>>),
     Call("Get", <<"b">>, <<>>, 0, 0, "", <<>>),
     Call("Stats", <<>>, <<>>, 0, 0, A1, <<>>),
     Call("Extra", <<>>, <<>>, 0, 0, A1, StatsCmd)}

InitMutex ==
    /\ Constructed(<<A1>>)
    /\ peer = [a \in Addrs |->
                 [Peer0 EXCEPT !.stats = <<<<<<"p">>, <<"1">>>>>>,
                               !.store[<<"b">>] = [present |-> TRUE, val |-> <<"x">>, cas |-> 1],
                               !.ctr = 1]]
    /\ faults = 1
    /\ prog = [t \in Threads |-> [calls |-> MethodCalls, max |-> 1]]

\* The steps of a command that is routed by an address.
AddrStep(t) ==
    \/ Scan(t)

NextMutex ==
    \/ \E t \in Threads : KeyStep(t)
    \/ \E t \in Threads : AddrStep(t)
    \/ \E t \in Threads : ConnReclose(t)
    \/ \E t \in Threads : ConnRedial(t)
    \/ \E st \in 1..Len(streams) : PeerServe(st)
    \/ \E st \in 1..Len(streams) : Drop(st)

SpecMutex == InitMutex /\ [][NextMutex]_vars

\* The threads inside an exchange on session s: past s.mu.Lock() and not
\* yet through the deferred Unlock.
InExchange(s) ==
    {t \in Threads : th[t].srv = s /\ th[t].pc \in {"write", "reclose", "redial", "read", "unlock"}}

\* At most one thread is inside an exchange on each session, and only that
\* thread has a command on the wire.
OneHolderPerSession ==
    \A s \in 1..Len(sess) :
        /\ Cardinality(InExchange(s)) <= 1
        /\ Cardinality(g.inflight[s]) <= 1
        /\ g.inflight[s] \subseteq InExchange(s)

\* A thread that has taken the session's lock and has not written yet
\* finds nothing of an earlier exchange on the session's open stream: no
\* request the peer has still to serve, no response octet still to read.
FullyRead ==
    \A t \in Threads :
        (th[t].pc = "write" /\ th[t].att = 1 /\ sess[th[t].srv].conn # 0)
            => LET st == streams[sess[th[t].srv].conn]
               IN  st.state = "open" => (st.c2s = <<>> /\ st.s2c = <<>>)

\* C3: on each session at most one exchange is in flight, and the bytes of
\* one command are written and its response fully read before any byte of
\* another command is written.
C3_OneExchangePerSession == OneHolderPerSession /\ FullyRead

\* ------------------------------------------------------------------------
\* SpecPar: two sessions; the peer of the first never answers.  Thread 1
\* stores key "d", which is routed to the first session, the other threads
\* store key "b", routed to the second.
\* ------------------------------------------------------------------------
InitPar ==
    /\ Constructed(<<A1, A2>>)
    /\ peer = [a \in Addrs |-> [Peer0 EXCEPT !.hung = (a = A1)]]
    /\ faults = 0
    /\ prog = [t \in Threads |->
                 [calls |-> {Call("Set", IF t = 1 THEN <<"d">> ELSE <<"b">>, <<"x">>, 0, 0, "", <<>>)},
                  max |-> 1]]

Serve == \E st \in 1..Len(streams) : PeerServe(st)

NextPar ==
    \/ \E t \in Threads : KeyStep(t)
    \/ Serve

\* A thread that can take a step takes one in the end, and a peer that is
\* not hung answers in the end.
SpecPar ==
    /\ InitPar
    /\ [][NextPar]_vars
    /\ \A t \in Threads : WF_vars(KeyStep(t))
    /\ WF_vars(Serve)

\* The thread is inside a network operation of its session's Conn.
InIO(t) == th[t].pc \in {"write", "reclose", "redial", "read"}

\* C4: a command blocked on the session whose peer never answers does not
\* keep a command routed to another session from completing, and no thread
\* holds the Client's lock while it writes to or reads from the network.
C4_SessionsIndependent ==
    /\ [](\A t \in Threads : InIO(t) => t \notin cmu)
    /\ \A t \in Threads \ {1} : (th[t].pc = "pick") ~> (th[t].pc = "ret" /\ th[t].ret.err = Nil)

\* Thread 1 waits for the peer that never answers and another thread's
\* command on the other session has returned.
C4_Witness ==
    /\ th[1].pc = "read" /\ th[1].srv = 1
    /\ \E t \in Threads \ {1} : th[t].pc = "ret" /\ th[t].ret.err = Nil /\ th[t].sent = <<2>>

\* ------------------------------------------------------------------------
\* SpecRoute: clients of one, two and three sessions, on builds whose int
\* has 32 or 64 bits; the threads fetch the keys, each more than once.
\* ------------------------------------------------------------------------
InitRoute ==
    /\ \E n \in 1..MaxAddrs : Constructed([i \in 1..n |-> <<A1, A2, A3>>[i]])
    /\ peer = [a \in Addrs |-> Peer0]
    /\ faults = 0
    /\ prog = [t \in Threads |->
                 [calls |-> {Call("Get", k, <<>>, 0, 0, "", <<>>) : k \in Keys},
                  max |-> IF t = 1 THEN MaxCalls ELSE 1]]

NextRoute ==
    \/ \E t \in Threads : KeyStep(t)
    \/ Serve

SpecRoute == InitRoute /\ [][NextRoute]_vars

\* crc32(k) mod N, as a number of 0..N-1.
HashIndex(k) == UMod(ChecksumIEEE(k), slen)

\* C5: with N >= 1 sessions pickServer(k) returns the session at index
\* crc32(k) mod N, an index of 0..N-1 whatever the 32-bit hash is, and calls
\* with the same key and the same session list go to the same session.
C5_RoutingByHash ==
    \A t \in Threads :
        /\ th[t].pc # "panic"
        /\ th[t].pc = "pickget" =>
              /\ th[t].idx \in 0..slen - 1
              /\ th[t].idx = HashIndex(th[t].op.key)
        /\ th[t].pc \in {"lock", "write", "read", "unlock"} =>
              th[t].srv = arr[HashIndex(th[t].op.key) + 1]
        /\ \A i, j \in 1..Len(th[t].hist) :
              th[t].hist[i].op.key = th[t].hist[j].op.key =>
                  th[t].hist[i].sent = th[t].hist[j].sent

\* ------------------------------------------------------------------------
\* SpecNew: NewClient on every address list of up to MaxAddrs addresses,
\* with every set of the addresses reachable.
\* ------------------------------------------------------------------------
InitNew ==
    /\ Unmade
    /\ up \in SUBSET Addrs

NextNew == \E addrs \in AddrLists : NewClient(addrs)

SpecNew == InitNew /\ [][NextNew]_vars

\* C6: NewClient with no address fails with ErrEmptyAddresses and dials
\* nothing; with addresses it returns a client, of one session per address
\* in the order given, exactly when every address can be dialled, and no
\* client and the dial's error otherwise.
C6_NewClient ==
    made # "none" =>
        IF g.given = <<>>
        THEN made = "failed" /\ g.newerr = ErrEmptyAddresses /\ g.attempts = 0
             /\ streams = <<>> /\ sess = <<>>
        ELSE /\ made = "client" <=> \A i \in 1..Len(g.given) : g.given[i] \in up
             /\ made = "client" =>
                   /\ g.newerr = Nil
                   /\ Len(sess) = Len(g.given)
                   /\ \A i \in 1..Len(sess) :
                         /\ sess[i].Address = g.given[i]
                         /\ sess[i].conn # 0
                         /\ streams[sess[i].conn].addr = g.given[i]
                         /\ streams[sess[i].conn].state = "open"
                         /\ \A j \in 1..Len(sess) : sess[j].conn = sess[i].conn => j = i
             /\ made # "client" => made = "failed" /\ sess = <<>> /\ g.newerr = <<DialErr>>

\* NewClient failed on an address that cannot be dialled, after one that
\* can.
C6_Witness ==
    /\ made = "failed"
    /\ Len(g.given) >= 2
    /\ g.given[1] \in up
    /\ g.given[2] \notin up
    /\ g.newerr = <<DialErr>>

\* ------------------------------------------------------------------------
\* SpecCas: one session whose peer holds key "b"; thread 1 reads the key
\* with Gets and writes it back with CAS under the token Gets returned,
\* the other threads Set the key.
\* ------------------------------------------------------------------------
Held == {<<"x">>, <<"x", "E", "N", "D", LF>>}

InitCas ==
    /\ Constructed(<<A1>>)
    /\ \E v \in Held :
          peer = [a \in Addrs |->
                    [Peer0 EXCEPT !.store[<<"b">>] = [present |-> TRUE, val |-> v, cas |-> 1],
                                  !.ctr = 1]]
    /\ faults = 0
    /\ prog = [t \in Threads |->
                 IF t = 1
                 THEN [calls |-> {Call("Gets", <<"b">>, <<>>, 0, 0, "", <<>>),
                                  Call("CAS", <<"b">>, <<"c">>, 0, UseToken, "", <<>>)},
                       max |-> MaxCalls]
                 ELSE [calls |-> {Call("Set", <<"b">>, <<"y">>, 0, 0, "", <<>>)}, max |-> 1]]

NextCas ==
    \/ \E t \in Threads : KeyStep(t)
    \/ Serve

SpecCas == InitCas /\ [][NextCas]_vars

\* Call i of thread t is a CAS under the token that the Gets before it, the
\* thread's previous call, returned for the same key.
CasAfterGets(t, i) ==
    LET h == th[t].hist
    IN  /\ i \in 2..Len(h)
        /\ h[i].op.name = "CAS"
        /\ h[i - 1].op.name = "Gets"
        /\ h[i - 1].op.key = h[i].op.key
        /\ h[i - 1].ret.err = Nil
        /\ h[i].op.cas = h[i - 1].ret.cas

\* The peer served a set of key k after the last gets before the cas and
\* before the cas.
SetBetween(k) ==
    \E a, b, c \in 1..Len(g.served) :
        /\ a < b /\ b < c
        /\ g.served[a].tk[1] = Wire("Gets")
        /\ g.served[b].tk[1] = Wire("Set") /\ g.served[b].tk[2] = k
        /\ g.served[c].tk[1] = Wire("CAS")
        /\ \A j \in a + 1..c - 1 : g.served[j].tk[1] # Wire("Gets")

\* C7: a CAS under the token of the Gets before it returns nil when the
\* server applied no write to the key in between, and ErrStoreFailed, the
\* other writer's value staying in place, when it applied a Set in between.
C7_CasAfterGets ==
    \A t \in Threads : \A i \in 1..Len(th[t].hist) :
        CasAfterGets(t, i) =>
            LET h == th[t].hist[i]
            IN  IF SetBetween(h.op.key)
                THEN /\ h.ret.err = ErrStoreFailed
                     /\ peer[A1].store[h.op.key].val = <<"y">>
                ELSE h.ret.err = Nil

\* ------------------------------------------------------------------------
\* SpecFan: three sessions, each peer accepting or rejecting the command;
\* thread 1 calls FlushAll and thread 2 Verbosity, while streams may fail.
\* ------------------------------------------------------------------------
Level == 1

InitFan ==
    /\ Constructed(<<A1, A2, A3>>)
    /\ \E acc \in [Addrs -> BOOLEAN] : peer = [a \in Addrs |-> [Peer0 EXCEPT !.ok = acc[a]]]
    /\ faults = MaxFaults
    /\ prog = [t \in Threads |->
                 IF t = 1 THEN [calls |-> {Call("FlushAll", <<>>, <<>>, 0, 0, "", <<>>)}, max |-> 1]
                 ELSE IF t = 2
                 THEN [calls |-> {Call("Verbosity", <<>>, <<>>, Level, 0, "", <<>>)}, max |-> 1]
                 ELSE NoProg]

\* The steps of a command that goes over all the sessions.
FanStep(t) ==
    \/ Invoke(t)
    \/ Range(t)
    \/ Iter(t)
    \/ SLock(t)
    \/ ConnWrite(t)
    \/ ConnReclose(t)
    \/ ConnRedial(t)
    \/ ConnRead(t)
    \/ SUnlock(t)

NextFan ==
    \/ \E t \in Threads : FanStep(t)
    \/ Serve
    \/ \E st \in 1..Len(streams) : Drop(st)

SpecFan == InitFan /\ [][NextFan]_vars

Range0(q) == {q[j] : j \in 1..Len(q)}

\* The peer of session s has applied the command op.
Updated(s, op) ==
    IF op.name = "FlushAll" THEN peer[sess[s].Address].flushed
    ELSE peer[sess[s].Address].verbosity = op.exp

\* The session the call stopped at: the one after the last that was sent
\* the command when the write itself failed, the last one sent otherwise.
StoppedAt(h) ==
    IF Len(h.ret.err) >= 2 /\ h.ret.err[1] = ErrWriteFailed[1] /\ h.ret.err[2] = ErrWriteFailed[1]
    THEN Len(h.sent) + 1
    ELSE Len(h.sent)

\* C8: FlushAll and Verbosity send the command to the sessions one at a
\* time in list order and stop at the first session whose exchange fails or
\* whose reply is not OK: its failure is returned, no later session is sent
\* the command, the earlier ones stay updated, and nil is returned only if
\* every session replied OK.
C8_FanOutStopsAtFirstFailure ==
    \A t \in Threads : \A i \in 1..Len(th[t].hist) :
        LET h == th[t].hist[i]
            f == StoppedAt(h)
        IN  h.op.name \in {"FlushAll", "Verbosity"} =>
              /\ h.sent = [j \in 1..Len(h.sent) |-> arr[j]]
              /\ IF h.ret.err = Nil
                 THEN /\ Len(h.sent) = slen
                      /\ \A s \in 1..slen : peer[sess[s].Address].ok /\ Updated(s, h.op)
                 ELSE /\ f \in 1..slen
                      /\ \A s \in 1..f - 1 : peer[sess[s].Address].ok /\ Updated(s, h.op)
                      /\ \A s \in f + 1..slen : s \notin Range0(h.sent) /\ ~Updated(s, h.op)
                      /\ IF h.ret.err = ErrStoreFailed
                         THEN ~peer[sess[f].Address].ok
                         ELSE h.ret.err[1] = ErrWriteFailed[1] /\ faults < MaxFaults

\* FlushAll stopped at the second of the three sessions, whose peer
\* rejected it: the first is flushed, the third was not sent the command.
C8_Witness ==
    /\ th[1].pc = "ret"
    /\ th[1].ret.err = ErrStoreFailed
    /\ th[1].hist[1].sent = <<1, 2>>
    /\ peer[A1].flushed /\ ~peer[A2].flushed /\ ~peer[A3].flushed
    /\ peer[A3].ok

\* ------------------------------------------------------------------------
\* SpecQuit: a client over every list of one to MaxAddrs addresses, the
\* same address more than once included; one thread calls Quit, with
\* addresses of the list and others, one call after the other.
\* ------------------------------------------------------------------------
InitQuit ==
    /\ \E addrs \in AddrLists \ {<<>>} : Constructed(addrs)
    /\ peer = [a \in Addrs |-> Peer0]
    /\ faults = 0
    /\ prog = [t \in Threads |->
                 IF t = 1
                 THEN [calls |-> {Call("Quit", <<>>, <<>>, 0, 0, a, <<>>) : a \in Addrs},
                       max |-> MaxCalls]
                 ELSE NoProg]

\* The steps of Quit.
QuitStep(t) ==
    \/ Invoke(t)
    \/ RLock(t)
    \/ Scan(t)
    \/ QuitClose(t)
    \/ QuitRemove(t)
    \/ QuitStore(t)

NextQuit == \E t \in Threads : QuitStep(t)

SpecQuit == InitQuit /\ [][NextQuit]_vars

\* The first position of list l whose session has address a, 0 if none.
RECURSIVE FirstWith(_, _, _)
FirstWith(l, a, i) ==
    IF i > Len(l) THEN 0
    ELSE IF sess[l[i]].Address = a THEN i ELSE FirstWith(l, a, i + 1)

\* What the calls h[i..] are to leave of the session list l: each Quit
\* takes out the first session with its address and closes it, or finds
\* none and fails; ok says every call returned what it was to return.
RECURSIVE Replay(_, _, _, _)
Replay(l, closed, h, i) ==
    IF i > Len(h) THEN [list |-> l, closed |-> closed, ok |-> TRUE]
    ELSE LET p == FirstWith(l, h[i].op.addr, 1)
         IN  IF p = 0
             THEN IF h[i].ret.err = ErrNotFound THEN Replay(l, closed, h, i + 1)
                  ELSE [list |-> l, closed |-> closed, ok |-> FALSE]
             ELSE IF h[i].ret.err = Nil
                  THEN Replay(SubSeq(l, 1, p - 1) \o SubSeq(l, p + 1, Len(l)),
                              closed \o <<l[p]>>, h, i + 1)
                  ELSE [list |-> l, closed |-> closed, ok |-> FALSE]

\* C9: Quit(addr) closes the stream of the first session with that address
\* and removes exactly that session, the others keeping their order; with
\* no such session it returns ErrNotFound, closes nothing and leaves the
\* list as it is.
C9_QuitRemovesOne ==
    th[1].pc \in {"idle", "ret"} =>
        LET want == Replay([i \in 1..Len(sess) |-> i], <<>>, th[1].hist, 1)
        IN  /\ want.ok
            /\ SubSeq(arr, 1, slen) = want.list
            /\ g.closed = want.closed
            /\ \A s \in 1..Len(sess) :
                  streams[sess[s].conn].state = "closed" <=> s \in Range0(want.closed)

\* Of two sessions with the same address Quit took out the first: the
\* second and the session between them are left, in that order.
C9_Witness ==
    /\ th[1].pc = "ret"
    /\ g.given = <<A1, A2, A1>>
    /\ Len(th[1].hist) = 1
    /\ th[1].hist[1].op.addr = A1
    /\ th[1].ret.err = Nil
    /\ slen = 2 /\ arr[1] = 2 /\ arr[2] = 3
    /\ g.closed = <<1>>

\* ------------------------------------------------------------------------
\* SpecStats: clients of two and three sessions whose peers report the
\* stats "p" and "q", each peer some of them and each with a value of its
\* own; one thread calls StatsAll.
\* ------------------------------------------------------------------------
StatKeys == {<<"p">>, <<"q">>}

\* The value peer a reports for a stat; a value may hold spaces.
StatValue(a, k) ==
    IF a = A1 THEN <<"1">> ELSE IF a = A2 THEN <<"2", SP, "2">> ELSE <<"3">>

StatsOf(a, ks) ==
    IF ks = {} THEN <<>>
    ELSE IF ks = StatKeys THEN <<<<<<"p">>, StatValue(a, <<"p">>)>>, <<<<"q">>, StatValue(a, <<"q">>)>>>>
    ELSE LET k == CHOOSE x \in ks : TRUE IN <<<<k, StatValue(a, k)>>>>

InitStats ==
    /\ \E addrs \in {<<A1, A2>>, <<A2, A1>>, <<A3, A1, A2>>} : Constructed(addrs)
    /\ \E rep \in [Addrs -> SUBSET StatKeys] :
          peer = [a \in Addrs |-> [Peer0 EXCEPT !.stats = StatsOf(a, rep[a])]]
    /\ faults = 0
    /\ prog = [t \in Threads |->
                 IF t = 1
                 THEN [calls |-> {Call("StatsAll", <<>>, <<>>, 0, 0, "", <<>>)}, max |-> MaxCalls]
                 ELSE NoProg]

\* The steps of StatsAll on streams that do not fail.
StatsStep(t) ==
    \/ Invoke(t)
    \/ Range(t)
    \/ Iter(t)
    \/ SLock(t)
    \/ ConnWrite(t)
    \/ ConnRead(t)
    \/ SUnlock(t)

NextStats ==
    \/ \E t \in Threads : StatsStep(t)
    \/ Serve

SpecStats == InitStats /\ [][NextStats]_vars

\* The peer of session s reports stat k.
Reports(s, k) ==
    \E i \in 1..Len(peer[sess[s].Address].stats) : peer[sess[s].Address].stats[i][1] = k

\* The first position of the session list whose peer reports stat k.
FirstReporting(k) == CHOOSE j \in 1..slen : Reports(arr[j], k) /\ \A i \in 1..j - 1 : ~Reports(arr[i], k)

\* C10: StatsAll visits the sessions in list order, and its merged map
\* holds, for each stat some server reported, the value of the first
\* server in list order that reported it.
C10_StatsAllFirstSeen ==
    \A t \in Threads : \A i \in 1..Len(th[t].hist) :
        LET h == th[t].hist[i]
        IN  (h.op.name = "StatsAll" /\ h.ret.err = Nil) =>
              /\ h.sent = SubSeq(arr, 1, slen)
              /\ DOMAIN h.ret.stats = {k \in StatKeys : \E j \in 1..slen : Reports(arr[j], k)}
              /\ \A k \in DOMAIN h.ret.stats :
                    h.ret.stats[k] = StatValue(sess[arr[FirstReporting(k)]].Address, k)

\* StatsAll returned a stat that two servers reported with different
\* values, and one that only the last server reported.
C10_Witness ==
    \E t \in Threads :
        /\ th[t].pc = "ret" /\ th[t].op.name = "StatsAll" /\ th[t].ret.err = Nil
        /\ g.given = <<A2, A1>>
        /\ Reports(1, <<"p">>) /\ Reports(2, <<"p">>)
        /\ ~Reports(1, <<"q">>) /\ Reports(2, <<"q">>)
        /\ th[t].ret.stats[<<"p">>] = <<"2", SP, "2">>
        /\ th[t].ret.stats[<<"q">>] = <<"1">>

\* ------------------------------------------------------------------------
\* SpecGet: one session whose peer holds key "b" and not key "d"; one
\* thread fetches the two keys, in any order.
\* ------------------------------------------------------------------------
InitGet ==
    /\ Constructed(<<A1>>)
    /\ \E v \in Held :
          peer = [a \in Addrs |->
                    [Peer0 EXCEPT !.store[<<"b">>] = [present |-> TRUE, val |-> v, cas |-> 1],
                                  !.ctr = 1]]
    /\ faults = 0
    /\ prog = [t \in Threads |->
                 IF t = 1
                 THEN [calls |-> {Call("Get", k, <<>>, 0, 0, "", <<>>) : k \in Keys},
                       max |-> MaxCalls]
                 ELSE NoProg]

NextGet ==
    \/ \E t \in Threads : KeyStep(t)
    \/ Serve

SpecGet == InitGet /\ [][NextGet]_vars

\* The peer that owns key k does not hold it.
Absent(k) == \A a \in Addrs : ~peer[a].store[k].present

\* C11: Get of a key the owning server does not hold returns ErrNotFound,
\* and never an empty value with a nil error.
C11_GetAbsent ==
    \A t \in Threads : \A i \in 1..Len(th[t].hist) :
        LET h == th[t].hist[i]
        IN  (h.op.name = "Get" /\ Absent(h.op.key)) =>
              /\ h.ret.err = ErrNotFound
              /\ ~(h.ret.err = Nil /\ h.ret.value = <<>>)

\* ------------------------------------------------------------------------
\* SpecCount: one session whose peer holds key "b" as a number, as a text
\* that is not a number, or not at all; one thread increments and
\* decrements it.
\* ------------------------------------------------------------------------
Counters == {<<"5">>, <<"0">>, <<"x">>}

InitCount ==
    /\ Constructed(<<A1>>)
    /\ \/ peer = [a \in Addrs |-> Peer0]
       \/ \E v \in Counters :
             peer = [a \in Addrs |->
                       [Peer0 EXCEPT !.store[<<"b">>] = [present |-> TRUE, val |-> v, cas |-> 1],
                                     !.ctr = 1]]
    /\ faults = 0
    /\ prog = [t \in Threads |->
                 IF t = 1
                 THEN [calls |-> {Call("Increment", <<"b">>, <<>>, 2, 0, "", <<>>),
                                  Call("Decrement", <<"b">>, <<>>, 6, 0, "", <<>>)},
                       max |-> MaxCalls]
                 ELSE NoProg]

NextCount ==
    \/ \E t \in Threads : KeyStep(t)
    \/ Serve

SpecCount == InitCount /\ [][NextCount]_vars

\* The line of a one-line reply.
ReplyLine(out) == SubSeq(out, 1, Len(out) - 2)

\* The decimal integer a line begins with, zero when it begins with none.
LeadingInt(line) ==
    IF line # <<>> /\ IsDigit(line[1]) THEN DecVal(DigitPrefix(line), 0) ELSE 0

\* C12: Increment and Decrement return ErrNotFound exactly when the reply
\* line is NOT_FOUND; for any other reply they return a nil error and the
\* decimal integer the reply begins with, zero when it is not a number.
C12_CounterReplies ==
    \A i \in 1..Len(th[1].hist) :
        LET h == th[1].hist[i]
        IN  h.op.name \in {"Increment", "Decrement"} =>
              /\ Len(g.served) >= i
              /\ IF ReplyLine(g.served[i].out) = NOT_FOUND
                 THEN h.ret.err = ErrNotFound
                 ELSE h.ret.err = Nil /\ h.ret.n = LeadingInt(ReplyLine(g.served[i].out))

\* Increment of a text that is not a number returned zero and no error.
C12_Witness ==
    \E i \in 1..Len(th[1].hist) :
        /\ th[1].hist[i].op.name = "Increment"
        /\ Len(g.served) >= i
        /\ ReplyLine(g.served[i].out) = NON_NUMERIC
        /\ th[1].hist[i].ret.err = Nil /\ th[1].hist[i].ret.n = 0

\* C13: after an exchange on a session has failed, the case of the redial
\* that failed and left the Conn without a socket included, the next
\* command on the session completes or returns an error: no command faults
\* on the absent socket.  Checked under SpecConn.
C13_NoFaultOnAbsentSocket ==
    \A t \in Threads : th[t].pc # "panic"

\* The reply the peer sent last on stream st, empty if it has sent none.
LastReply(st) ==
    LET js == {j \in 1..Len(g.served) : g.served[j].st = st}
    IN  IF js = {} THEN <<>>
        ELSE g.served[CHOOSE j \in js : \A i \in js : i <= j].out

IsSuffix(a, b) == Len(a) <= Len(b) /\ a = SubSeq(b, Len(b) - Len(a) + 1, Len(b))

\* C14: the response an exchange returns is made only of octets the server
\* sent in reply to the command of that exchange: while an exchange waits
\* to read, either its command is the one request not yet served and no
\* octet is there to read, or what is there to read is the rest of the
\* reply to its command.  Checked under SpecGet.
C14_ResponsePairing ==
    \A t \in Threads :
        (th[t].pc = "read" /\ sess[th[t].srv].conn # 0) =>
            LET S == streams[sess[th[t].srv].conn]
            IN  IF S.c2s # <<>>
                THEN S.c2s = th[t].out /\ S.s2c = <<>>
                ELSE IsSuffix(S.s2c, LastReply(sess[th[t].srv].conn))

\* C15: after the header VALUE <key> <flags> <bytes>, GetValue consumes
\* exactly bytes+2 octets as the data block and returns the first bytes of
\* them as the value, however the socket delivers the stream, and reads
\* the terminator line only then.  Stated for the first exchange of a
\* session, a Get of the key the peer holds; checked under SpecGet.
C15_DataBlockExact ==
    \A t \in Threads :
        (th[t].hist = <<>> /\ th[t].x = "gv" /\ th[t].op.key = <<"b">>) =>
            /\ (th[t].pc = "read" /\ th[t].ph = "end") =>
                  /\ th[t].value = peer[A1].store[<<"b">>].val
                  /\ th[t].rbuf \o streams[1].s2c = END \o CRLF
            /\ th[t].pc = "unlock" =>
                  /\ th[t].err = Nil
                  /\ th[t].value = peer[A1].store[<<"b">>].val

\* ------------------------------------------------------------------------
\* SpecRace: two sessions; thread 1 issues commands routed by key while
\* thread 2 calls Quit and QuitAll.
\* ------------------------------------------------------------------------
InitRace ==
    /\ Constructed(<<A1, A2>>)
    /\ peer = [a \in Addrs |-> Peer0]
    /\ faults = 0
    /\ prog = [t \in Threads |->
                 IF t = 1
                 THEN [calls |-> {Call("Set", k, <<"x">>, 0, 0, "", <<>>) : k \in Keys}, max |-> 1]
                 ELSE IF t = 2
                 THEN [calls |-> {Call("Quit", <<>>, <<>>, 0, 0, a, <<>>) : a \in {A1, A2}}
                                 \cup {Call("QuitAll", <<>>, <<>>, 0, 0, "", <<>>)},
                       max |-> MaxCalls]
                 ELSE NoProg]

\* The steps of the commands of SpecRace.
RaceStep(t) ==
    \/ KeyStep(t)
    \/ Scan(t)
    \/ QuitClose(t)
    \/ QuitRemove(t)
    \/ QuitStore(t)
    \/ Range(t)
    \/ Iter(t)
    \/ ConnReclose(t)
    \/ ConnRedial(t)

NextRace ==
    \/ \E t \in Threads : RaceStep(t)
    \/ Serve

SpecRace == InitRace /\ [][NextRace]_vars

\* The session on which Server.Close has just run in this step.
JustClosed(s) == g'.closed = g.closed \o <<s>>

\* Thread t has written its command to session s and has not yet read
\* the whole response.
AwaitsResponse(t, s) == th[t].srv = s /\ th[t].pc = "read"

\* C16: Server.Close, as called by Quit and QuitAll, never closes the
\* stream of a session while an exchange on that session is between its
\* write and the end of its response read.
C16_CloseExcludesExchange ==
    [][\A s \in 1..Len(arr) : JustClosed(s) => \A t \in Threads : ~AwaitsResponse(t, s)]_vars

\* This step changes c.servers: its length or one of the slots in use.
Mutates == slen' # slen \/ \E i \in 1..slen : arr'[i] # arr[i]

\* C17: every change of the session list (the removal in Quit, the
\* clearing in QuitAll) is made with the Client's lock held exclusively,
\* so no goroutine holds the read lock of pickServer or
\* pickServerFromAddr when the list changes.
C17_ListChangesUnderWriteLock == [][Mutates => cmu = {}]_vars

\* pickServer of thread t has faulted on the length of the list: it has
\* divided by a zero length, or indexed at or past the length.  (A negative
\* index is the subject of C5.)
PickFault(t) ==
    /\ th[t].op.name \in KeyRouted
    /\ th[t].pc = "panic"
    /\ \/ th[t].err = <<"integer divide by zero">>
       \/ th[t].err = <<"index out of range">> /\ th[t].idx >= 0

\* C18: under any interleaving of Quit and QuitAll with key-routed
\* commands, pickServer returns ErrNoServers or a session at an index
\* within the list; it never indexes out of range, never divides by zero.
C18_PickWithinBounds == \A t \in Threads : ~PickFault(t)

\* ------------------------------------------------------------------------
\* SpecQuit2: three sessions; threads 1 and 2 each call Quit once, for two
\* distinct addresses of the list.
\* ------------------------------------------------------------------------
InitQuit2 ==
    /\ Constructed(<<A1, A2, A3>>)
    /\ peer = [a \in Addrs |-> Peer0]
    /\ faults = 0
    /\ \E a \in {A1, A2, A3} : \E b \in {A1, A2, A3} \ {a} :
           prog = [t \in Threads |->
                     IF t = 1 THEN [calls |-> {Call("Quit", <<>>, <<>>, 0, 0, a, <<>>)}, max |-> 1]
                     ELSE IF t = 2 THEN [calls |-> {Call("Quit", <<>>, <<>>, 0, 0, b, <<>>)}, max |-> 1]
                     ELSE NoProg]

NextQuit2 == \E t \in Threads : QuitStep(t)

SpecQuit2 == InitQuit2 /\ [][NextQuit2]_vars

\* The addresses the two Quit calls are for.
Quitted == {c.addr : c \in prog[1].calls \cup prog[2].calls}

\* The session list as the calling program sees it.
List == SubSeq(arr, 1, slen)

Kept(s) == sess[s].Address \notin Quitted

\* C19: two concurrent Quit calls for two distinct addresses of the list
\* each close and remove the session of their own address: neither faults,
\* and when both have returned the list is the original list without those
\* two sessions, in the original order, and exactly those two are closed.
C19_ConcurrentQuits ==
    /\ ~crashed
    /\ (th[1].pc = "ret" /\ th[2].pc = "ret") =>
          /\ List = SelectSeq(<<1, 2, 3>>, Kept)
          /\ Len(g.closed) = 2
          /\ \A s \in 1..3 : streams[sess[s].conn].state = "closed" <=> ~Kept(s)

\* C20: a session closed by Quit or QuitAll stays closed: once Close has
\* run on a session, the library opens no new socket to its address, also
\* when another thread had picked the session before the Quit ran.
C20_ClosedStaysClosed ==
    [][\A s \in Range0(g.closed) :
          Len(streams') > Len(streams) => streams'[Len(streams')].addr # sess[s].Address]_vars

\* C21: one client command triggers at most one reconnect of its session's
\* connection, counting the redials of the command's write and of all the
\* reads of its response together.
C21_OneReconnectPerCommand == \A t \in Threads : th[t].redials <= 1

\* ------------------------------------------------------------------------
\* SpecEmpty: two sessions; thread 1 calls Quit and key-routed commands,
\* thread 2 calls QuitAll or Quit once.
\* ------------------------------------------------------------------------
InitEmpty ==
    /\ Constructed(<<A1, A2>>)
    /\ peer = [a \in Addrs |-> Peer0]
    /\ faults = 0
    /\ prog = [t \in Threads |->
                 IF t = 1
                 THEN [calls |-> {Call("Quit", <<>>, <<>>, 0, 0, A1, <<>>),
                                  Call("Set", <<"b">>, <<"x">>, 0, 0, "", <<>>),
                                  Call("Get", <<"b">>, <<>>, 0, 0, "", <<>>)},
                       max |-> MaxCalls]
                 ELSE IF t = 2
                 THEN [calls |-> {Call("QuitAll", <<>>, <<>>, 0, 0, "", <<>>),
                                  Call("Quit", <<>>, <<>>, 0, 0, A2, <<>>)},
                       max |-> 1]
                 ELSE NoProg]

SpecEmpty == InitEmpty /\ [][NextRace]_vars

\* Thread t runs, or has run, a key-routed command that it called when the
\* session list was empty or had been emptied.
CalledOnEmpty(t) == th[t].op.name \in KeyRouted /\ th[t].atEmpty

\* C22: once the session list is empty (after QuitAll, or after Quit has
\* removed the last session), every key-routed command returns
\* ErrNoServers and performs no network I/O.
C22_NoServersOnEmptyList ==
    \A t \in Threads :
        CalledOnEmpty(t) =>
            /\ th[t].pc \in {"pick", "ret"}
            /\ th[t].pc = "ret" => th[t].ret = Failed(ErrNoServers) /\ th[t].sent = <<>>
====
